---------------------------- MODULE Spec2Model ----------------------------
(* A model of vcrm's command-line pipeline (src/main_cli.py): main,        *)
(* VCRedistManager.fetch_all, process_runtime and the operations they      *)
(* call, over an abstract file system.  The network, the external tools    *)
(* (7zr.exe, 7za.exe, dark.exe, expand.exe) and the contents of the        *)
(* installers are the environment: each of their results is a              *)
(* nondeterministic choice.                                                *)
EXTENDS Integers, Sequences, FiniteSets

\* ------------------------------------------------------------------ bounds
NumRuntimes == 2      \* descriptors in the configuration
MaxCabs     == 2      \* payload cabinets an extraction can produce
MaxApplications == 2  \* calls of cleanup_dlls on one directory

\* ------------------------------------------------------- program constants
max_retries == 3      \* download_file's default
OLD_BELOW   == 14     \* "major_version < 14"
UNSUPPORTED == 10     \* "major_version == 10"
LEGACY_BELOW == 11    \* "major_version < 11"

\* ------------------------------------------------------------------ inputs
\* The inputs of a behaviour are the configuration file and the command line;
\* the command line is repeated by every invocation, with or without
\* --clean-up.
\* A version string is its sequence of dot-separated segments.
Versions == { <<9, 0>>, <<10, 0>>, <<11, 0>>, <<14, 0>> }
NoVersion == <<>>

RECURSIVE Ascending(_)
Ascending(s) ==
  IF Len(s) < 2 THEN TRUE
  ELSE s[1][1] < s[2][1] /\ Ascending(Tail(s))

\* The configurations: NumRuntimes descriptors, oldest first, no version twice.
Configs == { c \in [1..NumRuntimes -> Versions] : Ascending(c) }

ArgSets ==
  [ include_old_versions : BOOLEAN, silent : BOOLEAN, no_cleanup : BOOLEAN,
    version : Versions \cup {NoVersion}, clean_up : BOOLEAN ]

\* File names are sequences of tokens; a token starting with "." opens a suffix.
DotTokens == { ".dll", ".cat" }
FileNames ==
  { <<"m", ".dll", "_amd64">>, <<"m", "_amd64", ".dll">>, <<"m", ".dll">> }
\* What expand.exe can write from one cabinet.
CabContents ==
  { { <<"m", ".dll", "_amd64">>, <<"m", "_amd64", ".dll">> },
    { <<"m", ".dll">> } }

\* The names a directory given to cleanup_dlls can hold.
NormNames ==
  FileNames \cup { <<"n", ".dll", "_amd64">>, <<"m", "_amd64", ".dll", "_amd64">> }

\* An output directory that does not exist, and one holding the files fs.
NoDir == [ exists |-> FALSE, files |-> {} ]
Dir(fs) == [ exists |-> TRUE, files |-> fs ]
ToolFiles == { "7zr.exe", "7z-extra.7z", "7za.exe", "wix.zip", "dark.exe" }
FileStates == { "absent", "partial", "complete" }

VARIABLES
  config,    \* self.config['runtimes']['x64'], as the sequence of versions
  scan,      \* the order in which a directory listing yields the names
  args,      \* the parsed command line
  pc,        \* position of the running invocation
  idx,       \* index of the descriptor being processed
  dirs,      \* existing directories among base, downloads, core, tmp, 7zip, wix
  tools,     \* state of each file under core/
  inst,      \* state of each installer file under downloads/
  out,       \* per version: the directory vcruntime_<version> (NoDir or Dir(files))
  tmpAreas,  \* whether tmp/ holds a working area (mkdtemp)
  dl,        \* download_file's frame: attempt number, caller, sleeps so far
  cabs,      \* cabinets still to expand for the current runtime
  nexp,      \* cabinets expanded for the current runtime
  renq,      \* cleanup_dlls: matching files not yet renamed
  stages,    \* calls made so far while processing the current descriptor
  outcome,   \* per descriptor index: how process_runtime ended in this run
  printed    \* messages written to stdout in this run

vars == << config, scan, args, pc, idx, dirs, tools, inst, out, tmpAreas, dl,
           cabs, nexp, renq, stages, outcome, printed >>

fsvars == << dirs, tools, inst, out, tmpAreas >>


\* ----------------------------------------------------------------- helpers
IdleDl == [ attempt |-> 0, ret |-> "none", sleeps |-> << >> ]

Outcomes ==
  { "Pending", "SkippedOld", "SkippedHave", "SkippedUnsupported", "InProgress",
    "Done", "FailedProvision", "FailedExtract", "FailedExpand",
    "FailedNormalize", "Raised" }

Failed(o) ==
  o \in { "FailedProvision", "FailedExtract", "FailedExpand", "FailedNormalize" }
Skipped(o) == o \in { "SkippedOld", "SkippedHave", "SkippedUnsupported" }

\* runtime['version'] of the current descriptor
version == config[idx]

\* int(version.split('.')[0])
major_version_of(v) == v[1]
major_version == major_version_of(version)

\* Variant: the age test uses the legacy threshold.
SkipOldMutant == ~ args.include_old_versions /\ major_version < LEGACY_BELOW

\* "not include_old_versions and major_version < 14"
SkipOld == ~ args.include_old_versions /\ major_version < OLD_BELOW

\* Variant: "not any(...)" for "any(...)".
PopulatedMutant(v) == out[v].exists /\ out[v].files = {}

\* "output_dir.exists() and any(output_dir.iterdir())"
Populated(v) == out[v].exists /\ out[v].files # {}

\* "major_version == 10"
IsUnsupported == major_version = UNSUPPORTED

\* Variant: "<=" for "<".
IsLegacyMutant == major_version <= LEGACY_BELOW

\* "major_version < 11"
IsLegacy == major_version < LEGACY_BELOW

\* Variant: the silent flag is not consulted.
ReportMutant(kind) == printed \cup { << kind, idx >> }

\* print(...) under "if not self.args.silent"
Report(kind) ==
  IF args.silent THEN printed ELSE printed \cup { << kind, idx >> }

\* The destination of the download in progress, named by who called it.
DestState ==
  CASE dl.ret = "classify"   -> inst[version]
    [] dl.ret = "f7_archive" -> tools["7zr.exe"]
    [] dl.ret = "f7_unpack"  -> tools["7z-extra.7z"]
    [] dl.ret = "fw_unzip"   -> tools["wix.zip"]

SetDest(st) ==
  CASE dl.ret = "classify" ->
         /\ inst' = [inst EXCEPT ![version] = st]
         /\ UNCHANGED tools
    [] dl.ret = "f7_archive" ->
         /\ tools' = [tools EXCEPT !["7zr.exe"] = st]
         /\ UNCHANGED inst
    [] dl.ret = "f7_unpack" ->
         /\ tools' = [tools EXCEPT !["7z-extra.7z"] = st]
         /\ UNCHANGED inst
    [] dl.ret = "fw_unzip" ->
         /\ tools' = [tools EXCEPT !["wix.zip"] = st]
         /\ UNCHANGED inst

\* Variant: the delay does not grow.
BackoffMutant(attempt) == 2

\* "time.sleep(2 * (attempt + 1))"
Backoff(attempt) == 2 * (attempt + 1)

\* Variant: the exception is not caught.
CaughtMutant(kind) ==
  /\ outcome' = [outcome EXCEPT ![idx] = kind]
  /\ printed' = printed
  /\ pc' = "raised"

\* "except Exception as e" of process_runtime: report, and return normally.
Caught(kind) ==
  /\ outcome' = [outcome EXCEPT ![idx] = kind]
  /\ printed' = Report("error")
  /\ pc' = "ret"

\* Variant: cleanup_dlls is called as soon as the cabinets are located.
AfterLocateMutant(k) == "cleanup_dlls"

\* The for loop over the located cabinets, then cleanup_dlls.
AfterLocate(k) == IF k = 0 THEN "cleanup_dlls" ELSE "extract_cab"

\* ----------------------------------------------------------- cleanup_dlls
IsDot(t) == t \in DotTokens

\* Variant: the glob is '*.dll_x64'.
MatchesGlobMutant(name) ==
  /\ Len(name) >= 2
  /\ name[Len(name)] = "_x64"
  /\ name[Len(name) - 1] = ".dll"

\* directory.glob('*.dll_amd64')
MatchesGlob(name) ==
  /\ Len(name) >= 2
  /\ name[Len(name)] = "_amd64"
  /\ name[Len(name) - 1] = ".dll"

\* A directory listing yields names in an order that the file system fixes:
\* scan lists the names the glob can match in that order.
MatchNames == { f \in NormNames : MatchesGlob(f) }
ScanOrders ==
  { s \in [ 1..Cardinality(MatchNames) -> MatchNames ] :
      \A i, j \in DOMAIN s : i # j => s[i] # s[j] }
ScanPos(f) == CHOOSE i \in DOMAIN scan : scan[i] = f

\* the next dll_file of "for dll_file in directory.glob(...)"
NextInScan(q) == CHOOSE f \in q : \A g \in q : ScanPos(f) <= ScanPos(g)

\* index of the token that opens the last suffix (0: none)
RECURSIVE LastDot(_, _)
LastDot(name, i) ==
  IF i <= 1 THEN 0
  ELSE IF IsDot(name[i]) THEN i ELSE LastDot(name, i - 1)

\* Path.stem
Stem(name) ==
  LET d == LastDot(name, Len(name))
  IN  IF d = 0 THEN name ELSE SubSeq(name, 1, d - 1)

\* str.replace('_amd64', '')
RECURSIVE Replace(_)
Replace(s) ==
  IF s = << >> THEN << >>
  ELSE IF Head(s) = "_amd64" THEN Replace(Tail(s))
  ELSE << Head(s) >> \o Replace(Tail(s))

\* dll_file.stem.replace('_amd64', '') + '.dll'
NewName(name) == Replace(Stem(name)) \o << ".dll" >>

\* Variant: the download cache is left in place.
CleanupTempMutant ==
  /\ dirs' = dirs \ { "tmp" }
  /\ inst' = inst
  /\ tmpAreas' = FALSE

\* cleanup_temp
CleanupTemp ==
  /\ dirs' = dirs \ { "tmp", "downloads" }
  /\ inst' = [ v \in Versions |-> "absent" ]
  /\ tmpAreas' = FALSE

\* -------------------------------------------------------------------- Init
\* The cabinets carry one name that the glob matches (CabContents), so the
\* pipeline runs under one listing order.
Init ==
  /\ config \in Configs
  /\ args \in { a \in ArgSets : ~ a.clean_up }
  /\ scan = CHOOSE s \in ScanOrders : TRUE
  /\ pc = "idle"
  /\ idx = 0
  /\ dirs = {}
  /\ tools = [ f \in ToolFiles |-> "absent" ]
  /\ inst = [ v \in Versions |-> "absent" ]
  /\ out = [ v \in Versions |-> NoDir ]
  /\ tmpAreas = FALSE
  /\ dl = IdleDl
  /\ cabs = 0
  /\ nexp = 0
  /\ renq = {}
  /\ stages = << >>
  /\ outcome = [ i \in 1..NumRuntimes |-> "Pending" ]
  /\ printed = {}

\* -------------------------------------------------------------------- main
Ended == pc \in { "idle", "returned", "raised" }

\* Variant: __init__ creates its directories whatever args.clean_up.
MainCleanUpMutant ==
  /\ Ended
  /\ args' = [args EXCEPT !.clean_up = TRUE]
  /\ dirs' = (dirs \cup { "base", "downloads", "core", "tmp" }) \ { "tmp", "downloads" }
  /\ inst' = [ v \in Versions |-> "absent" ]
  /\ tmpAreas' = FALSE
  /\ pc' = "idle"
  /\ idx' = 0
  /\ outcome' = [ i \in 1..NumRuntimes |-> "Pending" ]
  /\ printed' = {}
  /\ stages' = << >>
  /\ cabs' = 0
  /\ nexp' = 0
  /\ renq' = {}
  /\ UNCHANGED << config, scan, tools, out, dl >>

\* main(), args.clean_up: the manager is constructed without creating any
\* directory, then cleanup_temp.
MainCleanUp ==
  /\ Ended
  /\ args' = [args EXCEPT !.clean_up = TRUE]
  /\ CleanupTemp
  /\ pc' = "idle"
  /\ idx' = 0
  /\ outcome' = [ i \in 1..NumRuntimes |-> "Pending" ]
  /\ printed' = {}
  /\ stages' = << >>
  /\ cabs' = 0
  /\ nexp' = 0
  /\ renq' = {}
  /\ UNCHANGED << config, scan, tools, out, dl >>

\* main(), the default branch: __init__ creates the directories, then
\* fetch_all is called.
Main ==
  /\ Ended
  /\ args' = [args EXCEPT !.clean_up = FALSE]
  /\ dirs' = dirs \cup { "base", "downloads", "core", "tmp" }
  /\ pc' = "fetch_all"
  /\ idx' = 0
  /\ outcome' = [ i \in 1..NumRuntimes |-> "Pending" ]
  /\ printed' = {}
  /\ stages' = << >>
  /\ cabs' = 0
  /\ nexp' = 0
  /\ renq' = {}
  /\ UNCHANGED << config, scan, tools, inst, out, tmpAreas, dl >>

\* --------------------------------------------------------------- fetch_all
\* Entry of fetch_all: the requested version is searched, or the loop starts.
FetchAll ==
  /\ pc = "fetch_all"
  /\ IF args.version # NoVersion
       THEN IF \E i \in 1..NumRuntimes : config[i] = args.version
              THEN /\ idx' = CHOOSE i \in 1..NumRuntimes : config[i] = args.version
                   /\ pc' = "process_runtime"
                   /\ UNCHANGED printed
              ELSE /\ printed' = printed \cup { << "notfound", 0 >> }
                   /\ pc' = "returned"
                   /\ UNCHANGED idx
       ELSE /\ idx' = 1
            /\ pc' = "process_runtime"
            /\ UNCHANGED printed
  /\ UNCHANGED << config, scan, args, dirs, tools, inst, out, tmpAreas, dl,
                  cabs, nexp, renq, stages, outcome >>

\* "return  # Exit after processing the specified version"
FetchAllReturnVersion ==
  /\ pc = "ret"
  /\ args.version # NoVersion
  /\ pc' = "returned"
  /\ UNCHANGED << config, scan, args, idx, dirs, tools, inst, out, tmpAreas, dl,
                  cabs, nexp, renq, stages, outcome, printed >>

\* The next iteration of "for runtime in self.config['runtimes']['x64']".
FetchAllNext ==
  /\ pc = "ret"
  /\ args.version = NoVersion
  /\ idx < NumRuntimes
  /\ idx' = idx + 1
  /\ pc' = "process_runtime"
  /\ stages' = << >>
  /\ cabs' = 0
  /\ nexp' = 0
  /\ renq' = {}
  /\ UNCHANGED << config, scan, args, dirs, tools, inst, out, tmpAreas, dl,
                  outcome, printed >>

\* The loop is over: "if not self.args.no_cleanup: self.cleanup_temp()".
FetchAllEnd ==
  /\ pc = "ret"
  /\ args.version = NoVersion
  /\ idx = NumRuntimes
  /\ IF args.no_cleanup
       THEN UNCHANGED << dirs, inst, tmpAreas >>
       ELSE CleanupTemp
  /\ pc' = "returned"
  /\ UNCHANGED << config, scan, args, idx, tools, out, dl, cabs, nexp, renq,
                  stages, outcome, printed >>

\* --------------------------------------------------------- process_runtime
\* process_runtime up to its call of download_file: the two early returns,
\* output_dir.mkdir, then download_file(runtime['url'], ...).
ProcessRuntime ==
  /\ pc = "process_runtime"
  /\ IF SkipOld
       THEN /\ outcome' = [outcome EXCEPT ![idx] = "SkippedOld"]
            /\ pc' = "ret"
            /\ UNCHANGED << out, dl, stages, printed >>
       ELSE IF Populated(version)
         THEN /\ printed' = Report("already")
              /\ outcome' = [outcome EXCEPT ![idx] = "SkippedHave"]
              /\ pc' = "ret"
              /\ UNCHANGED << out, dl, stages >>
         ELSE /\ out' = [out EXCEPT ![version] = Dir({})]
              /\ stages' = << "mkdir", "download_file" >>
              /\ dl' = [ attempt |-> 0, ret |-> "classify", sleeps |-> << >> ]
              /\ outcome' = [outcome EXCEPT ![idx] = "InProgress"]
              /\ pc' = "download_file"
              /\ UNCHANGED printed
  /\ UNCHANGED << config, scan, args, idx, dirs, tools, inst, tmpAreas, cabs,
                  nexp, renq >>

\* download_file, before its loop: "if dest.is_file(): return dest".
DownloadFile ==
  /\ pc = "download_file"
  /\ IF DestState # "absent"
       THEN /\ pc' = dl.ret
            /\ dl' = IdleDl
       ELSE /\ pc' = "dl_attempt"
            /\ UNCHANGED dl
  /\ UNCHANGED << config, scan, args, idx, dirs, tools, inst, out, tmpAreas,
                  cabs, nexp, renq, stages, outcome, printed >>

\* One iteration of "for attempt in range(max_retries)".  The request is
\* refused (nothing is written), breaks while the body is streamed into the
\* opened file, or succeeds.  The installer is downloaded outside the try of
\* process_runtime, the tool files inside it.
DownloadAttempt ==
  /\ pc = "dl_attempt"
  /\ \E r \in { "ok", "refused", "broken" } :
       /\ CASE r = "ok"      -> SetDest("complete")
            [] r = "refused" -> UNCHANGED << tools, inst >>
            [] r = "broken"  -> SetDest("partial")
       /\ IF r = "ok"
            THEN /\ pc' = dl.ret
                 /\ dl' = IdleDl
                 /\ UNCHANGED << outcome, printed >>
            ELSE IF dl.attempt = max_retries - 1
              THEN /\ dl' = IdleDl
                   /\ IF dl.ret = "classify"
                        THEN /\ outcome' = [outcome EXCEPT ![idx] = "Raised"]
                             /\ pc' = "raised"
                             /\ UNCHANGED printed
                        ELSE Caught("FailedProvision")
              ELSE /\ dl' = [dl EXCEPT !.attempt = dl.attempt + 1,
                                       !.sleeps = Append(dl.sleeps, Backoff(dl.attempt))]
                   /\ UNCHANGED << pc, outcome, printed >>
  /\ UNCHANGED << config, scan, args, idx, dirs, out, tmpAreas, cabs, nexp, renq,
                  stages >>

\* "if major_version == 10: ... return", then the branch on major_version < 11.
Classify ==
  /\ pc = "classify"
  /\ IF IsUnsupported
       THEN /\ printed' = Report("unsupported")
            /\ outcome' = [outcome EXCEPT ![idx] = "SkippedUnsupported"]
            /\ pc' = "ret"
       ELSE /\ pc' = IF IsLegacy THEN "fetch_7zip" ELSE "fetch_wix"
            /\ UNCHANGED << outcome, printed >>
  /\ UNCHANGED << config, scan, args, idx, dirs, tools, inst, out, tmpAreas, dl,
                  cabs, nexp, renq, stages >>

\* --------------------------------------------------------------- fetch_7zip
\* tools_path.mkdir, then 7zr.exe is downloaded unless it is a file.
Fetch7zip ==
  /\ pc = "fetch_7zip"
  /\ dirs' = dirs \cup { "7zip" }
  /\ stages' = Append(stages, "fetch_7zip")
  /\ IF tools["7zr.exe"] = "absent"
       THEN /\ dl' = [ attempt |-> 0, ret |-> "f7_archive", sleeps |-> << >> ]
            /\ pc' = "download_file"
       ELSE /\ pc' = "f7_archive"
            /\ UNCHANGED dl
  /\ UNCHANGED << config, scan, args, idx, tools, inst, out, tmpAreas, cabs,
                  nexp, renq, outcome, printed >>

\* 7z-extra.7z is downloaded unless it is a file.
Fetch7zipArchive ==
  /\ pc = "f7_archive"
  /\ IF tools["7z-extra.7z"] = "absent"
       THEN /\ dl' = [ attempt |-> 0, ret |-> "f7_unpack", sleeps |-> << >> ]
            /\ pc' = "download_file"
       ELSE /\ pc' = "f7_unpack"
            /\ UNCHANGED dl
  /\ UNCHANGED << config, scan, args, idx, dirs, tools, inst, out, tmpAreas,
                  cabs, nexp, renq, stages, outcome, printed >>

\* Unless 7za.exe is a file, 7zr.exe unpacks the archive (check=True): it can
\* succeed only when both files are whole.
Fetch7zipUnpack ==
  /\ pc = "f7_unpack"
  /\ IF tools["7za.exe"] = "absent"
       THEN /\ stages' = Append(stages, "run_7zr")
            /\ \E ok \in BOOLEAN :
                 IF ok /\ tools["7zr.exe"] = "complete"
                       /\ tools["7z-extra.7z"] = "complete"
                   THEN /\ tools' = [tools EXCEPT !["7za.exe"] = "complete"]
                        /\ pc' = "extract_old_installer"
                        /\ UNCHANGED << outcome, printed >>
                   ELSE /\ Caught("FailedProvision")
                        /\ UNCHANGED tools
       ELSE /\ pc' = "extract_old_installer"
            /\ UNCHANGED << tools, stages, outcome, printed >>
  /\ UNCHANGED << config, scan, args, idx, dirs, inst, out, tmpAreas, dl, cabs,
                  nexp, renq >>

\* ---------------------------------------------------------------- fetch_wix
\* Unless dark.exe is a file: wix_path.mkdir and the download of wix.zip.
FetchWix ==
  /\ pc = "fetch_wix"
  /\ stages' = Append(stages, "fetch_wix")
  /\ IF tools["dark.exe"] = "absent"
       THEN /\ dirs' = dirs \cup { "wix" }
            /\ dl' = [ attempt |-> 0, ret |-> "fw_unzip", sleeps |-> << >> ]
            /\ pc' = "download_file"
       ELSE /\ pc' = "extract_burn_bundle"
            /\ UNCHANGED << dirs, dl >>
  /\ UNCHANGED << config, scan, args, idx, tools, inst, out, tmpAreas, cabs,
                  nexp, renq, outcome, printed >>

\* Variant: a failed extraction of wix.zip is ignored.
FetchWixUnzipMutant ==
  /\ pc = "fw_unzip"
  /\ stages' = Append(stages, "unzip")
  /\ \E ok \in BOOLEAN :
       IF ok /\ tools["wix.zip"] = "complete"
         THEN /\ tools' = [tools EXCEPT !["dark.exe"] = "complete",
                                        !["wix.zip"] = "absent"]
              /\ pc' = "extract_burn_bundle"
              /\ UNCHANGED << outcome, printed >>
         ELSE /\ pc' = "extract_burn_bundle"
              /\ UNCHANGED << tools, outcome, printed >>
  /\ UNCHANGED << config, scan, args, idx, dirs, inst, out, tmpAreas, dl, cabs,
                  nexp, renq >>

\* zipfile.ZipFile(...).extractall, then zip_path.unlink(): a truncated
\* archive cannot be opened.
FetchWixUnzip ==
  /\ pc = "fw_unzip"
  /\ stages' = Append(stages, "unzip")
  /\ \E ok \in BOOLEAN :
       IF ok /\ tools["wix.zip"] = "complete"
         THEN /\ tools' = [tools EXCEPT !["dark.exe"] = "complete",
                                        !["wix.zip"] = "absent"]
              /\ pc' = "extract_burn_bundle"
              /\ UNCHANGED << outcome, printed >>
         ELSE /\ Caught("FailedProvision")
              /\ UNCHANGED tools
  /\ UNCHANGED << config, scan, args, idx, dirs, inst, out, tmpAreas, dl, cabs,
                  nexp, renq >>

\* ------------------------------------------------------- container extraction
\* extract_old_installer: mkdtemp, 7za.exe x ... -i!*.cab (check=True), then
\* the emptiness check; the loop that follows takes the top-level *.cab.
ExtractOldInstaller ==
  /\ pc = "extract_old_installer"
  /\ tmpAreas' = TRUE
  /\ stages' = stages \o << "extract_old_installer", "run_7za" >>
  /\ \E ok \in BOOLEAN, top \in 0..MaxCabs, nested \in BOOLEAN :
       IF ok /\ (top > 0 \/ nested)
         THEN /\ cabs' = top
              /\ pc' = AfterLocate(top)
              /\ UNCHANGED << outcome, printed >>
         ELSE /\ Caught("FailedExtract")
              /\ UNCHANGED cabs
  /\ UNCHANGED << config, scan, args, idx, dirs, tools, inst, out, dl, nexp, renq >>

\* extract_burn_bundle: mkdtemp, dark.exe -x (check=True); then find_cabs:
\* one cab1.cab per AttachedContainer/packages/*_amd64.
ExtractBurnBundle ==
  /\ pc = "extract_burn_bundle"
  /\ tmpAreas' = TRUE
  /\ \E ok \in BOOLEAN, packages \in 0..MaxCabs :
       IF ok
         THEN /\ stages' = stages \o << "extract_burn_bundle", "run_dark", "find_cabs" >>
              /\ cabs' = packages
              /\ pc' = AfterLocate(packages)
              /\ UNCHANGED << outcome, printed >>
         ELSE /\ stages' = stages \o << "extract_burn_bundle", "run_dark" >>
              /\ Caught("FailedExtract")
              /\ UNCHANGED cabs
  /\ UNCHANGED << config, scan, args, idx, dirs, tools, inst, out, dl, nexp, renq >>

\* extract_cab for the next located cabinet: expand.exe -F:* (check=True).
ExtractCab ==
  /\ pc = "extract_cab"
  /\ stages' = stages \o << "extract_cab", "run_expand" >>
  /\ \/ \E c \in CabContents :
          /\ out' = [out EXCEPT ![version] = Dir(out[version].files \cup c)]
          /\ cabs' = cabs - 1
          /\ nexp' = nexp + 1
          /\ pc' = AfterLocate(cabs - 1)
          /\ UNCHANGED << outcome, printed >>
     \/ /\ Caught("FailedExpand")
        /\ UNCHANGED << out, cabs, nexp >>
  /\ UNCHANGED << config, scan, args, idx, dirs, tools, inst, tmpAreas, dl, renq >>

\* cleanup_dlls: the glob is evaluated.
CleanupDlls ==
  /\ pc = "cleanup_dlls"
  /\ stages' = Append(stages, "cleanup_dlls")
  /\ renq' = { f \in out[version].files : MatchesGlob(f) }
  /\ pc' = "rename"
  /\ UNCHANGED << config, scan, args, idx, dirs, tools, inst, out, tmpAreas, dl,
                  cabs, nexp, outcome, printed >>

\* Variant: the loop is left after the first rename.
RenameMutant ==
  /\ pc = "rename"
  /\ IF renq = {}
       THEN /\ outcome' = [outcome EXCEPT ![idx] = "Done"]
            /\ pc' = "ret"
            /\ UNCHANGED << out, renq, printed >>
       ELSE LET f == NextInScan(renq)
            IN
              IF NewName(f) \in out[version].files
                THEN /\ Caught("FailedNormalize")
                     /\ UNCHANGED << out, renq >>
                ELSE /\ out' = [out EXCEPT ![version] =
                                  Dir((out[version].files \ { f }) \cup { NewName(f) })]
                     /\ renq' = {}
                     /\ UNCHANGED << pc, outcome, printed >>
  /\ UNCHANGED << config, scan, args, idx, dirs, tools, inst, tmpAreas, dl,
                  cabs, nexp, stages >>

\* cleanup_dlls: one dll_file.rename(directory / new_name), which raises
\* FileExistsError when the new name is taken; after the last one, the try
\* block of process_runtime is over.
Rename ==
  /\ pc = "rename"
  /\ IF renq = {}
       THEN /\ outcome' = [outcome EXCEPT ![idx] = "Done"]
            /\ pc' = "ret"
            /\ UNCHANGED << out, renq, printed >>
       ELSE LET f == NextInScan(renq)
            IN
              IF NewName(f) \in out[version].files
                THEN /\ Caught("FailedNormalize")
                     /\ UNCHANGED << out, renq >>
                ELSE /\ out' = [out EXCEPT ![version] =
                                  Dir((out[version].files \ { f }) \cup { NewName(f) })]
                     /\ renq' = renq \ { f }
                     /\ UNCHANGED << pc, outcome, printed >>
  /\ UNCHANGED << config, scan, args, idx, dirs, tools, inst, tmpAreas, dl,
                  cabs, nexp, stages >>

\* ------------------------------------------------------------ specification
Next ==
  \/ Main
  \/ MainCleanUp
  \/ FetchAll
  \/ FetchAllReturnVersion
  \/ FetchAllNext
  \/ FetchAllEnd
  \/ ProcessRuntime
  \/ DownloadFile
  \/ DownloadAttempt
  \/ Classify
  \/ Fetch7zip
  \/ Fetch7zipArchive
  \/ Fetch7zipUnpack
  \/ FetchWix
  \/ FetchWixUnzip
  \/ ExtractOldInstaller
  \/ ExtractBurnBundle
  \/ ExtractCab
  \/ CleanupDlls
  \/ Rename

Spec == Init /\ [][Next]_vars

\* ------------------------------------------- the tool cache as an input
\* core/ outlives every run and is never cleaned by the program: what it
\* holds when an invocation starts is an input.  The bootstrap files and the
\* target executables are each there whole, or not there.
ToolCaches == [ ToolFiles -> { "absent", "complete" } ]

CacheDirs(t) ==
  (IF \E f \in ToolFiles : t[f] # "absent" THEN { "base", "core" } ELSE {})
    \cup (IF \E f \in { "7zr.exe", "7z-extra.7z", "7za.exe" } : t[f] # "absent"
            THEN { "7zip" } ELSE {})
    \cup (IF \E f \in { "wix.zip", "dark.exe" } : t[f] # "absent"
            THEN { "wix" } ELSE {})

\* A first invocation, verbose and with old versions included, over any cache.
InitTools ==
  /\ config \in Configs
  /\ args \in { a \in ArgSets : /\ ~ a.clean_up /\ a.include_old_versions
                                 /\ ~ a.silent /\ ~ a.no_cleanup }
  /\ scan = CHOOSE s \in ScanOrders : TRUE
  /\ pc = "idle"
  /\ idx = 0
  /\ tools \in ToolCaches
  /\ dirs = CacheDirs(tools)
  /\ inst = [ v \in Versions |-> "absent" ]
  /\ out = [ v \in Versions |-> NoDir ]
  /\ tmpAreas = FALSE
  /\ dl = IdleDl
  /\ cabs = 0
  /\ nexp = 0
  /\ renq = {}
  /\ stages = << >>
  /\ outcome = [ i \in 1..NumRuntimes |-> "Pending" ]
  /\ printed = {}

SpecTools == InitTools /\ [][Next]_vars

\* ------------------------------------------ cleanup_dlls as an operation
\* cleanup_dlls applied, MaxApplications times, to a directory holding any
\* set of names, under any listing order.
NumApplied == Len(SelectSeq(stages, LAMBDA t : t = "cleanup_dlls"))

InitNormalize ==
  /\ config \in Configs
  /\ scan \in ScanOrders
  /\ args = [ include_old_versions |-> TRUE, silent |-> FALSE,
              no_cleanup |-> FALSE, version |-> NoVersion, clean_up |-> FALSE ]
  /\ pc = "cleanup_dlls"
  /\ idx = 1
  /\ dirs = { "base", "downloads", "core", "tmp" }
  /\ tools = [ f \in ToolFiles |-> "absent" ]
  /\ inst = [ v \in Versions |-> "absent" ]
  /\ \E d \in SUBSET NormNames :
       out = [ v \in Versions |-> IF v = config[1] THEN Dir(d) ELSE NoDir ]
  /\ tmpAreas = FALSE
  /\ dl = IdleDl
  /\ cabs = 0
  /\ nexp = 0
  /\ renq = {}
  /\ stages = << >>
  /\ outcome = [ i \in 1..NumRuntimes |-> IF i = 1 THEN "InProgress" ELSE "Pending" ]
  /\ printed = {}

\* cleanup_dlls is called on the same directory once more.
NormalizeAgain ==
  /\ pc = "ret"
  /\ NumApplied < MaxApplications
  /\ pc' = "cleanup_dlls"
  /\ outcome' = [outcome EXCEPT ![idx] = "InProgress"]
  /\ printed' = {}
  /\ UNCHANGED << config, scan, args, idx, dirs, tools, inst, out, tmpAreas,
                  dl, cabs, nexp, renq, stages >>

NextNormalize ==
  \/ CleanupDlls
  \/ Rename
  \/ NormalizeAgain

SpecNormalize == InitNormalize /\ [][NextNormalize]_vars

TypeOK ==
  /\ config \in Configs
  /\ scan \in ScanOrders
  /\ args \in ArgSets
  /\ idx \in 0..NumRuntimes
  /\ dirs \subseteq { "base", "downloads", "core", "tmp", "7zip", "wix" }
  /\ tools \in [ ToolFiles -> FileStates ]
  /\ inst \in [ Versions -> FileStates ]
  /\ \A v \in Versions :
       /\ out[v].files \subseteq (FileNames \cup { NewName(f) : f \in FileNames })
       /\ out[v].exists \/ out[v].files = {}
  /\ cabs \in 0..MaxCabs
  /\ nexp \in 0..MaxCabs
  /\ outcome \in [ 1..NumRuntimes -> Outcomes ]

\* ------------------------------------------------------------------ claims
\* The calls made so far for the current descriptor.
Stages == { stages[k] : k \in 1..Len(stages) }
ProvisionStages == { "fetch_7zip", "fetch_wix", "run_7zr", "unzip" }
ExtractStages ==
  { "extract_old_installer", "run_7za", "extract_burn_bundle", "run_dark",
    "find_cabs", "extract_cab", "run_expand", "cleanup_dlls" }
TookLegacy == "fetch_7zip" \in Stages
TookWix == "fetch_wix" \in Stages
Generation(i) == config[i][1]
Batch == args.version = NoVersion

\* C1: a descriptor that has passed the early returns and the download takes
\* no extraction path iff its generation is 10, the 7-Zip path (fetch_7zip,
\* extract_old_installer) iff it is below 11 and not 10, and the WiX path
\* (fetch_wix, extract_burn_bundle) iff it is 11 or more.
C1_PathByGeneration ==
  idx >= 1 =>
    LET g == Generation(idx)
    IN  /\ TookLegacy => (g < 11 /\ g # 10)
        /\ TookWix => g >= 11
        /\ "extract_old_installer" \in Stages => TookLegacy
        /\ "extract_burn_bundle" \in Stages => TookWix
        /\ (pc = "ret" /\ outcome[idx] \notin { "SkippedOld", "SkippedHave" }) =>
             /\ (g = 10) <=> (~ TookLegacy /\ ~ TookWix)
             /\ (g < 11 /\ g # 10) <=> TookLegacy
             /\ (g >= 11) <=> TookWix

C1_Witness ==
  /\ idx >= 1
  /\ pc = "ret"
  /\ Generation(idx) = 11
  /\ "extract_burn_bundle" \in Stages

\* C2: in a batch run, an installer download that fails after its retries
\* does not abort the batch: the run does not end in the propagated error,
\* and when it ends every later descriptor has been processed.
C2_DownloadFailureConfined ==
  Batch =>
    \A i \in 1..NumRuntimes :
      outcome[i] = "Raised" =>
        /\ pc # "raised"
        /\ Ended => \A j \in (i + 1)..NumRuntimes : outcome[j] # "Pending"

\* C3: in a batch run, a failed container extraction or payload expansion is
\* caught inside process_runtime: the runtime ends Failed, process_runtime
\* returns normally to the loop of fetch_all, which never ends at that
\* descriptor with the error, and a batch that returns has processed every
\* later descriptor.
C3_ExtractionFailureConfined ==
  Batch =>
    \A i \in 1..NumRuntimes :
      outcome[i] \in { "FailedExtract", "FailedExpand" } =>
        /\ idx >= i
        /\ idx = i => pc \in { "ret", "returned" }
        /\ pc = "raised" => (idx > i /\ outcome[idx] = "Raised")
        /\ pc = "returned" => \A j \in (i + 1)..NumRuntimes : outcome[j] # "Pending"
        /\ << "error", i >> \in printed <=> ~ args.silent

C3_Witness ==
  /\ Batch
  /\ pc = "ret"
  /\ idx >= 2
  /\ outcome[idx - 1] \in { "FailedExtract", "FailedExpand" }
  /\ outcome[idx] = "Done"
  /\ nexp >= 1

\* C4: a runtime whose working area yields no payload cabinet never ends in
\* Done: Done requires at least one expanded cabinet.
C4_ZeroCabsNeverDone ==
  (idx >= 1 /\ outcome[idx] = "Done") => nexp >= 1

\* C5: when process_runtime starts on a descriptor whose output directory
\* exists and is not empty, it returns at once as a skip: nothing is
\* downloaded, no tool is provisioned or run, and no file or directory
\* changes; so a runtime found populated has made no call at all.
C5_PopulatedSkipped ==
  /\ [][ ( /\ pc = "process_runtime"
           /\ out[config[idx]].exists
           /\ out[config[idx]].files # {} )
         => ( /\ pc' = "ret"
              /\ outcome'[idx] \in { "SkippedHave", "SkippedOld" }
              /\ stages' = << >>
              /\ UNCHANGED << dirs, tools, inst, out, tmpAreas, dl >> ) ]_vars
  /\ [] ( (idx >= 1 /\ outcome[idx] = "SkippedHave") =>
            (stages = << >> /\ pc \in { "ret", "returned" }) )

C5_Witness ==
  /\ idx >= 1
  /\ pc = "ret"
  /\ outcome[idx] = "SkippedHave"
  /\ out[config[idx]].files # {}
  /\ stages = << >>

\* C6: without --include-old-versions, process_runtime on a descriptor of a
\* generation below 14 returns at once: no download, no directory created,
\* no tool provisioned, no process spawned, nothing printed.
C6_OldSkippedBeforeAnyWork ==
  [][ ( /\ pc = "process_runtime"
        /\ ~ args.include_old_versions
        /\ Generation(idx) < 14 )
      => ( /\ pc' = "ret"
           /\ outcome'[idx] = "SkippedOld"
           /\ stages' = << >>
           /\ UNCHANGED << dirs, tools, inst, out, tmpAreas, dl, printed >> ) ]_vars

C6_Witness ==
  /\ idx >= 1
  /\ pc = "ret"
  /\ ~ args.include_old_versions
  /\ Generation(idx) = 11
  /\ outcome[idx] = "SkippedOld"
  /\ ~ out[config[idx]].exists

\* C7: in a batch with --include-old-versions, a descriptor of generation 10
\* ends in Skipped: no tool is provisioned, nothing is extracted or expanded, and the
\* run goes on instead of failing.
C7_UnsupportedSkipped ==
  (Batch /\ args.include_old_versions /\ idx >= 1 /\ Generation(idx) = 10) =>
    /\ Stages \cap (ProvisionStages \cup ExtractStages) = {}
    /\ pc # "raised"
    /\ pc \in { "ret", "returned" } => Skipped(outcome[idx])

\* The tool a descriptor needs.
NeedsLegacy(i) == Generation(i) < 11 /\ Generation(i) # 10
NeedsWix(i) == Generation(i) >= 11
SameTool(i, j) ==
  (NeedsLegacy(i) /\ NeedsLegacy(j)) \/ (NeedsWix(i) /\ NeedsWix(j))

\* C8 (as claimed): once the provisioning of a tool has failed in a batch, no
\* later runtime that needs that tool is extracted or reaches Done in that
\* run.
C8_ProvisioningFailureFatalForRest ==
  \A i \in 1..NumRuntimes, j \in 1..NumRuntimes :
    (Batch /\ i < j /\ outcome[i] = "FailedProvision" /\ SameTool(i, j)) =>
      /\ outcome[j] # "Done"
      /\ j = idx => Stages \cap ExtractStages = {}

\* C8 (amended): a provisioning failure is fatal for the runtime being
\* processed only: it is caught, that runtime is not extracted and ends
\* Failed, and the loop goes on.  Every runtime that gets as far as its tool
\* provisions again for itself, and an extraction tool is only ever run once
\* its executable is in place.
C8_ProvisioningFailurePerRuntime ==
  /\ \A i \in 1..NumRuntimes :
       outcome[i] = "FailedProvision" =>
         /\ idx >= i
         /\ idx = i =>
              /\ pc \in { "ret", "returned" }
              /\ Stages \cap ExtractStages = {}
              /\ nexp = 0
         /\ pc = "raised" => (idx > i /\ outcome[idx] = "Raised")
  /\ "run_7za" \in Stages => (TookLegacy /\ tools["7za.exe"] = "complete")
  /\ "run_dark" \in Stages => (TookWix /\ tools["dark.exe"] = "complete")

C8_Witness ==
  /\ Batch
  /\ idx >= 2
  /\ outcome[idx - 1] = "FailedProvision"
  /\ SameTool(idx - 1, idx)
  /\ outcome[idx] = "Done"
  /\ "run_dark" \in Stages
  /\ nexp >= 1

\* C9 (as claimed): whenever fetch_all has returned normally and --no-cleanup
\* was not given, neither tmp nor downloads exists.
C9_EveryReturnCleansUp ==
  (pc = "returned" /\ ~ args.no_cleanup) =>
    { "tmp", "downloads" } \cap dirs = {}

\* C9 (amended): whenever fetch_all has returned normally from a full batch
\* (no version requested) and --no-cleanup was not given, neither tmp nor
\* downloads exists; a run restricted to one requested version, found or
\* not, returns without cleaning up, so both still exist.
C9_BatchReturnCleansUp ==
  /\ (pc = "returned" /\ ~ args.no_cleanup /\ Batch) =>
       /\ { "tmp", "downloads" } \cap dirs = {}
       /\ ~ tmpAreas
       /\ \A v \in Versions : inst[v] = "absent"
  /\ (pc = "returned" /\ ~ Batch) => { "tmp", "downloads" } \subseteq dirs

C9_Witness ==
  /\ pc = "returned"
  /\ Batch
  /\ ~ args.no_cleanup
  /\ \E i \in 1..NumRuntimes : outcome[i] = "Done"
  /\ { "tmp", "downloads" } \cap dirs = {}

\* C10 (as claimed): every skip for an unsupported generation or for an
\* already populated output directory is reported, in silent mode too.
C10_SkipsAlwaysReported ==
  \A i \in 1..NumRuntimes :
    /\ outcome[i] = "SkippedHave" => << "already", i >> \in printed
    /\ outcome[i] = "SkippedUnsupported" => << "unsupported", i >> \in printed

\* C10 (amended): every skip for an unsupported generation or for an already
\* populated output directory is reported exactly when silent mode is off; in
\* silent mode it is not reported.
C10_SkipsReportedUnlessSilent ==
  \A i \in 1..NumRuntimes :
    /\ outcome[i] = "SkippedHave" =>
         (<< "already", i >> \in printed <=> ~ args.silent)
    /\ outcome[i] = "SkippedUnsupported" =>
         (<< "unsupported", i >> \in printed <=> ~ args.silent)

C10_Witness ==
  /\ args.silent
  /\ \E i \in 1..NumRuntimes :
       /\ outcome[i] = "SkippedHave"
       /\ << "already", i >> \notin printed
  /\ \E i \in 1..NumRuntimes : outcome[i] = "SkippedUnsupported"

\* C11: provisioning a tool whose target executable already exists returns at
\* once: no download is made for fetch_7zip while 7za.exe is a file, whatever
\* the state of 7zr.exe and 7z-extra.7z, and none is made and nothing is
\* unpacked for fetch_wix while dark.exe is a file.
C11_ProvisionReturnsAtOnce ==
  /\ (pc \in { "download_file", "dl_attempt" }
        /\ dl.ret \in { "f7_archive", "f7_unpack" })
       => tools["7za.exe"] = "absent"
  /\ (pc \in { "download_file", "dl_attempt" } /\ dl.ret = "fw_unzip")
       => tools["dark.exe"] = "absent"
  /\ pc = "fw_unzip" => tools["dark.exe"] = "absent"

\* The state, after the step, of the destination of the download in progress.
DestAfter ==
  CASE dl.ret = "classify"   -> inst'[version]
    [] dl.ret = "f7_archive" -> tools'["7zr.exe"]
    [] dl.ret = "f7_unpack"  -> tools'["7z-extra.7z"]
    [] dl.ret = "fw_unzip"   -> tools'["wix.zip"]

\* C12: download_file on a destination that does not exist makes at most 3
\* attempts; an attempt that succeeds returns to the caller with the file
\* whole; a failed attempt that is not the third is followed by a sleep of 2
\* then 4 seconds and one more attempt; the error is raised after the third
\* failure only; no step leaves the loop otherwise.
C12_BoundedRetries ==
  /\ [](pc = "dl_attempt" =>
          /\ dl.attempt < 3
          /\ dl.sleeps = SubSeq(<< 2, 4 >>, 1, dl.attempt))
  /\ [][pc = "dl_attempt" =>
          \/ /\ DestAfter = "complete"
             /\ pc' = dl.ret
          \/ /\ DestAfter # "complete"
             /\ dl.attempt = 2
             /\ pc' \in { "raised", "ret" }
             /\ outcome'[idx] \in { "Raised", "FailedProvision" }
          \/ /\ DestAfter # "complete"
             /\ dl.attempt < 2
             /\ pc' = "dl_attempt"
             /\ dl'.attempt = dl.attempt + 1
             /\ Len(dl'.sleeps) = Len(dl.sleeps) + 1
             /\ dl'.sleeps[Len(dl'.sleeps)] > 0
             /\ dl.sleeps # << >> =>
                  dl'.sleeps[Len(dl'.sleeps)] > dl.sleeps[Len(dl.sleeps)]]_vars

C12_Witness ==
  /\ pc = "dl_attempt"
  /\ dl.attempt = 2
  /\ dl.sleeps = << 2, 4 >>
  /\ DestState = "partial"

\* The names of the directory being normalized.
Files == out[version].files
HasMarker(f) == \E k \in 1..Len(f) : f[k] = "_amd64"
EndsDllMarker(f) ==
  Len(f) >= 2 /\ f[Len(f)] = "_amd64" /\ f[Len(f) - 1] = ".dll"
Stripped(f) == SelectSeq(f, LAMBDA t : t # "_amd64")

\* C13 (as claimed): after cleanup_dlls has run to its end, no file name in
\* the directory contains "_amd64": every <stem>_amd64.<ext> was renamed to
\* <stem>.<ext>.
C13_NoMarkerLeft ==
  (pc = "ret" /\ outcome[idx] = "Done") => \A f \in Files : ~ HasMarker(f)

\* C13 (amended): cleanup_dlls renames the names ending in ".dll_amd64", each
\* to its name without "_amd64" and ending in ".dll", provided that name is
\* free; when it runs to its end no name ends in ".dll_amd64"; when a new
\* name is taken it raises and that file keeps its name; every other name,
\* <stem>_amd64.<ext> included, stays in the directory.
C13_DllSuffixRenamed ==
  /\ []((pc = "ret" /\ outcome[idx] = "Done") =>
          \A f \in Files : ~ EndsDllMarker(f))
  /\ []((pc = "ret" /\ outcome[idx] = "FailedNormalize") =>
          \E f \in Files : EndsDllMarker(f) /\ Stripped(f) \in Files)
  /\ [][/\ \A f \in Files : ~ EndsDllMarker(f) => f \in Files'
        /\ Files' # Files =>
             /\ pc = "rename"
             /\ \E f \in Files :
                  /\ EndsDllMarker(f)
                  /\ Stripped(f) \notin Files
                  /\ Files' = (Files \ { f }) \cup { Stripped(f) }]_vars

C13_Witness ==
  /\ pc = "ret"
  /\ outcome[idx] = "Done"
  /\ <<"n", ".dll">> \in Files
  /\ <<"m", ".dll">> \in Files
  /\ <<"m", "_amd64", ".dll">> \in Files

\* C14: a second application of cleanup_dlls to a directory renames nothing:
\* the directory after two applications is the directory after one.
C14_SecondApplicationRenamesNothing ==
  [][NumApplied >= 2 => out' = out]_vars

C14_Witness ==
  /\ NumApplied = 2
  /\ pc = "ret"
  /\ <<"n", ".dll">> \in Files
  /\ <<"m", "_amd64", ".dll">> \in Files

\* C15: a descriptor that ends Skipped, for any of the three reasons, was
\* skipped before any work on it: no output directory was created and no
\* installer download was started for it in this run.
C15_SkipIsDirect ==
  (idx >= 1 /\ Skipped(outcome[idx])) =>
    /\ stages = << >>
    /\ (outcome[idx] # "SkippedHave" => ~ out[version].exists)

\* The pipeline stage a call belongs to, numbered in the claimed order and in
\* the order of process_runtime.
ClaimedRank(t) ==
  CASE t = "mkdir" -> 0
    [] t \in ProvisionStages -> 1
    [] t = "download_file" -> 2
    [] t \in { "extract_old_installer", "run_7za", "extract_burn_bundle", "run_dark" } -> 3
    [] t = "find_cabs" -> 4
    [] t \in { "extract_cab", "run_expand" } -> 5
    [] t = "cleanup_dlls" -> 6
CodeRank(t) ==
  CASE t = "download_file" -> 1
    [] t \in ProvisionStages -> 2
    [] OTHER -> ClaimedRank(t)
StageNames == { "mkdir", "download_file" } \cup ProvisionStages \cup ExtractStages
ClaimedRanks == [ t \in StageNames |-> ClaimedRank(t) ]
CodeRanks == [ t \in StageNames |-> CodeRank(t) ]
InOrder(rank) ==
  \A k \in 1..(Len(stages) - 1) : rank[stages[k]] <= rank[stages[k + 1]]
Reached(rank) == { rank[t] : t \in Stages }

\* C16 (as claimed): the calls made for a descriptor follow the order
\* provision tool, download installer, extract container, locate payloads,
\* expand each payload, normalize: the installer download starts only once
\* the tool has been provisioned, and cleanup_dlls runs only when no located
\* cabinet is left to expand.
C16_ProvisionThenDownload ==
  idx >= 1 =>
    /\ InOrder(ClaimedRanks)
    /\ 2 \in Reached(ClaimedRanks) => 1 \in Reached(ClaimedRanks)
    /\ "cleanup_dlls" \in Stages => cabs = 0

\* C16 (amended): the calls made for a descriptor follow the order download
\* installer, provision tool, extract container, locate payloads, expand each
\* payload, normalize: no stage starts before the one before it, the tool is
\* provisioned only once the installer download has returned, and
\* cleanup_dlls runs only when no located cabinet is left to expand.
C16_DownloadThenProvision ==
  (idx >= 1 /\ stages # << >>) =>
    LET ranks == Reached(CodeRanks)
    IN  /\ InOrder(CodeRanks)
        /\ 2 \in ranks =>
             /\ 1 \in ranks
             /\ ~ Ended => inst[version] # "absent"
        /\ 3 \in ranks => 2 \in ranks
        /\ 5 \in ranks => 3 \in ranks
        /\ 6 \in ranks => (3 \in ranks /\ cabs = 0)
        /\ nexp = Len(SelectSeq(stages, LAMBDA t : t = "run_expand"))
                   - (IF outcome[idx] = "FailedExpand" THEN 1 ELSE 0)

C16_Witness ==
  /\ idx >= 1
  /\ pc = "ret"
  /\ outcome[idx] = "Done"
  /\ nexp >= 2
  /\ stages[2] = "download_file"
  /\ stages[3] = "fetch_wix"
  /\ "unzip" \in Stages

C18_NoPartialFileLeft ==
  pc # "dl_attempt" =>
    /\ \A v \in Versions : inst[v] # "partial"
    /\ \A f \in { "7zr.exe", "7z-extra.7z", "wix.zip" } : tools[f] # "partial"

\* C19: a step that runs cleanup_temp (the standalone cleanup, or the end of
\* a batch without --no-cleanup) removes tmp and downloads and changes no
\* other directory: the files under core and every output directory are as
\* before; the standalone cleanup creates no directory, and after it neither
\* tmp nor downloads exists.
C19_CleanupFrame ==
  /\ [][(args'.clean_up
           \/ (pc = "ret" /\ pc' = "returned" /\ Batch /\ ~ args.no_cleanup)) =>
          /\ dirs' = dirs \ { "tmp", "downloads" }
          /\ tools' = tools
          /\ out' = out
          /\ \A v \in Versions : inst'[v] = "absent"
          /\ ~ tmpAreas']_vars
  /\ [](args.clean_up =>
          /\ pc = "idle"
          /\ { "tmp", "downloads" } \cap dirs = {})

C19_Witness ==
  /\ args.clean_up
  /\ { "base", "core", "wix" } \subseteq dirs
  /\ tools["dark.exe"] = "complete"
  /\ \E v \in Versions : out[v].files # {}
  /\ \E v \in Versions : out[v] = Dir({})

=============================================================================
